---- MODULE Spec2Model ----
(***************************************************************************)
(* The MCP proxy of the Ambient Code Platform backend:                     *)
(*   mcp_ambient_server/client.py  APIClient (transport client)            *)
(*   mcp_ambient_server/server.py  the twelve tools and main               *)
(*                                                                         *)
(* Spec is the server process: main, then the serving loop dispatching     *)
(* tool invocations that interleave at their one await.  SpecConstruct is  *)
(* an APIClient constructed directly with arguments, SpecHandle is         *)
(* _handle_response over the whole range of status codes, SpecModule the   *)
(* module imported with its tools callable before main has run.            *)
(* SpecE2E is the run of claude-code-runner/tests/test_langfuse_e2e.py.    *)
(*                                                                         *)
(* Text is a sequence of tokens.  A token is a single character ("/", ".", *)
(* "a") where the code looks inside the text (paths, names), and a whole   *)
(* word where it does not.  None is the one-token text <<"<None>">>, the   *)
(* empty string is <<>>.                                                   *)
(***************************************************************************)
EXTENDS Integers, Sequences, FiniteSets, Bags, TLC

VARIABLES env, ctor, pc, exit_code, api_client, http_clients, run_entered,
          pending, reply, hr, script

vars == <<env, ctor, pc, exit_code, api_client, http_clients, run_entered,
          pending, reply, hr, script>>

\* the variables of the MCP proxy; script is the run of the end-to-end
\* script tests/test_langfuse_e2e.py
serverVars == <<env, ctor, pc, exit_code, api_client, http_clients, run_entered,
                pending, reply, hr>>

----------------------------------------------------------------------------
(* Bounds of the model *)

\* invocations that may be pending on the shared client at the same time
MaxInv == 2

\* requests one invocation may issue before the model stops counting
MaxAttempts == 2

----------------------------------------------------------------------------
(* Python values *)

None == <<"<None>">>

\* the end-to-end script not started: where it is, the session name main
\* holds, the exception propagating, the seconds since start_time, the
\* polls made and when the last one began, how the wait ended and on
\* which observation, the DELETE requests and cleanup calls made, and the
\* exit code of the process
ScriptIdle ==
    [pc |-> "idle", session_name |-> None, exc |-> "", elapsed |-> 0,
     check_count |-> 0, last_check |-> 0, wait_result |-> "", observed |-> "",
     deletes |-> 0, cleanups |-> 0, cleanup_raised |-> FALSE, passed |-> FALSE,
     exit_code |-> -1]

\* Python truthiness of an Optional[str]: None and "" are falsy
Truthy(x) == x # None /\ x # <<>>

\* Python's `a or b`
Or(a, b) == IF Truthy(a) THEN a ELSE b

\* os.getenv(name, default)
GetEnv(e, name, default) == IF e[name] = None THEN default ELSE e[name]

DefaultBaseUrl ==
    <<"http://", "vteam-backend.ambient-code.svc.cluster.local", ":8080", "/api">>

TestBaseUrl == <<"http://", "test-backend", ":8080", "/api">>

TestToken == <<"tok-123">>

----------------------------------------------------------------------------
(* client.py: APIClient.__init__ and close *)

\* timeout=30.0 of the httpx.AsyncClient
RequestTimeout == 30

\* self.client before line 44 has run
NoHttpClient ==
    [created |-> FALSE, base_url |-> <<>>, Authorization |-> <<>>,
     timeout |-> 0, closed |-> FALSE]

\* the module-level api_client before main assigns it (server.py line 27)
NoClient ==
    [raised |-> "unset", msg |-> <<>>, base_url |-> <<>>, token |-> <<>>,
     client |-> NoHttpClient]

\* line 35 with the check dropped
InitRaisesNever(token) == "ok"

\* lines 35-36: "ok", or the exception raised
InitRaises(token) == IF ~Truthy(token) THEN "ValueError" ELSE "ok"

\* APIClient(base_url, token) under environment e: the object after
\* construction, with raised = "ValueError" when line 36 raises (the
\* httpx.AsyncClient of line 44 is then never created)
APIClientInit(base_url, token, e) ==
    LET b == Or(base_url, GetEnv(e, "BACKEND_API_URL", DefaultBaseUrl))
        t == Or(token, GetEnv(e, "BOT_TOKEN", <<>>))
    IN  IF InitRaises(t) = "ValueError"
        THEN [raised |-> "ValueError",
              msg |-> <<"BOT_TOKEN", "environment", "variable", "must", "be", "set">>,
              base_url |-> b, token |-> t, client |-> NoHttpClient]
        ELSE [raised |-> "ok", msg |-> <<>>, base_url |-> b, token |-> t,
              client |-> [created |-> TRUE,
                          base_url |-> b,
                          Authorization |-> <<"Bearer", " ">> \o t,
                          timeout |-> RequestTimeout,
                          closed |-> FALSE]]

\* APIClient.close
close(c) == [c EXCEPT !.client.closed = TRUE]

----------------------------------------------------------------------------
(* Text helpers *)

\* the words of a literal, separated by single spaces
RECURSIVE Words(_)
Words(ws) ==
    IF Len(ws) = 0 THEN <<>>
    ELSE IF Len(ws) = 1 THEN <<ws[1]>>
    ELSE <<ws[1], " ">> \o Words(Tail(ws))

\* Python's `sub in text` on token sequences
Contains(text, sub) ==
    \E i \in 0..(Len(text) - Len(sub)) :
        \A j \in 1..Len(sub) : text[i + j] = sub[j]

\* text.startswith(sub)
StartsWith(text, sub) ==
    /\ Len(sub) <= Len(text)
    /\ \A j \in 1..Len(sub) : text[j] = sub[j]

\* str.capitalize() of a lower-case resource type: its first letter raised
CapitalToken(w) ==
    CASE w = "projects" -> "Projects"
      [] w = "project" -> "Project"
      [] w = "access" -> "Access"
      [] w = "sessions" -> "Sessions"
      [] w = "session" -> "Session"
      [] w = "k8s" -> "K8s"
      [] w = "workspace" -> "Workspace"
      [] w = "file" -> "File"
      [] w = "workflows" -> "Workflows"
      [] w = "workflow" -> "Workflow"
      [] w = "cluster" -> "Cluster"
      [] w = "health" -> "Health"
      [] w = "resource" -> "Resource"
      [] OTHER -> w

Capitalize(text) ==
    IF Len(text) = 0 THEN text ELSE <<CapitalToken(text[1])>> \o Tail(text)

----------------------------------------------------------------------------
(* JSON values.  t is the type; s the elements of an array or the tokens   *)
(* of a string; n a number; f the members of an object, in order, as       *)
(* <<key, value>> pairs.  "invalid" is a body json() cannot parse.         *)

JNull == [t |-> "null", s |-> <<>>, n |-> 0, f |-> <<>>]
JInvalid == [t |-> "invalid", s |-> <<>>, n |-> 0, f |-> <<>>]
JArr(elems) == [t |-> "array", s |-> elems, n |-> 0, f |-> <<>>]
JStr(toks) == [t |-> "string", s |-> toks, n |-> 0, f |-> <<>>]
JNum(k) == [t |-> "number", s |-> <<>>, n |-> k, f |-> <<>>]
JObj(members) == [t |-> "object", s |-> <<>>, n |-> 0, f |-> members]

HasKey(obj, key) == \E i \in 1..Len(obj.f) : obj.f[i][1] = key

\* dict.get(key, default) on a parsed object
DictGet(obj, key, default) ==
    IF HasKey(obj, key)
    THEN obj.f[CHOOSE i \in 1..Len(obj.f) : obj.f[i][1] = key][2]
    ELSE default

----------------------------------------------------------------------------
(* Results of a call: a returned value or a raised exception *)

Return(v) == [kind |-> "return", type |-> "", msg |-> <<>>, value |-> v]
Raise(type, msg) == [kind |-> "raise", type |-> type, msg |-> msg, value |-> JNull]

\* isinstance(e, ValueError): json.JSONDecodeError derives from ValueError
IsValueError(type) == type \in {"ValueError", "JSONDecodeError"}

\* response.json()
ResponseJson(body) ==
    IF body.t = "invalid"
    THEN Raise("JSONDecodeError",
               Words(<<"Expecting", "value:", "line", "1", "column", "1", "(char", "0)">>))
    ELSE Return(body)

UnknownBackendError == Words(<<"Unknown", "backend", "error">>)

\* str() of a JSON value placed in an f-string
StrOf(v) ==
    CASE v.t = "string" -> v.s
      [] v.t = "null" -> <<"None">>
      [] v.t = "number" -> <<ToString(v.n)>>
      [] OTHER -> <<"<repr>">>

\* lines 84-89 reading the "message" member instead of "error"
BackendErrorMsgOtherKey(body) ==
    LET parsed == ResponseJson(body)
    IN  IF parsed.kind = "raise" THEN UnknownBackendError
        ELSE IF parsed.value.t # "object" THEN UnknownBackendError
        ELSE StrOf(DictGet(parsed.value, "message", JStr(UnknownBackendError)))

\* lines 84-89: the message of a status >= 500
BackendErrorMsg(body) ==
    LET parsed == ResponseJson(body)
    IN  IF parsed.kind = "raise" THEN UnknownBackendError
        ELSE IF parsed.value.t # "object" THEN UnknownBackendError
        ELSE StrOf(DictGet(parsed.value, "error", JStr(UnknownBackendError)))

----------------------------------------------------------------------------
(* client.py: APIClient._handle_response *)

AuthFailedMsg ==
    Words(<<"Authentication", "failed.", "BOT_TOKEN", "may", "be", "invalid",
            "or", "expired.">>)

AccessDeniedMsg(resource_type) ==
    Words(<<"Access", "denied.", "User", "does", "not", "have", "permission",
            "for", "this">>) \o <<" ">> \o resource_type \o <<".">>

\* the 404 message without the resource kind
NotFoundMsgGeneric(resource_type) == Words(<<"Resource", "not", "found">>)

NotFoundMsg(resource_type) ==
    Capitalize(resource_type) \o <<" ">> \o Words(<<"not", "found">>)

BackendMsg(body) ==
    Words(<<"Backend", "API", "error:">>) \o <<" ">> \o BackendErrorMsg(body)

RequestFailedMsg(status) ==
    Words(<<"Request", "failed", "with", "status">>) \o <<" ", ToString(status)>>

_handle_response(status, body, resource_type) ==
    IF status >= 200 /\ status < 300 THEN ResponseJson(body)
    ELSE IF status = 401 THEN Raise("Exception", AuthFailedMsg)
    ELSE IF status = 403 THEN Raise("Exception", AccessDeniedMsg(resource_type))
    ELSE IF status = 404 THEN Raise("Exception", NotFoundMsg(resource_type))
    ELSE IF status >= 500 THEN Raise("Exception", BackendMsg(body))
    ELSE Raise("Exception", RequestFailedMsg(status))

----------------------------------------------------------------------------
(* client.py: the twelve operations of APIClient *)

Ops ==
    {"list_projects", "get_project", "check_project_access", "list_sessions",
     "get_session", "get_session_k8s_resources", "list_session_workspace",
     "get_workspace_file", "list_ootb_workflows", "get_workflow_metadata",
     "get_cluster_info", "get_health"}

\* the operations that take project_name, session_name, path
TakesProject ==
    Ops \ {"list_projects", "list_ootb_workflows", "get_cluster_info", "get_health"}

TakesSession ==
    {"get_session", "get_session_k8s_resources", "list_session_workspace",
     "get_workspace_file", "get_workflow_metadata"}

TakesPath == {"get_workspace_file"}

\* the resource_type each operation passes to _handle_response
ResourceType(op) ==
    CASE op = "list_projects" -> <<"projects">>
      [] op = "get_project" -> <<"project">>
      [] op = "check_project_access" -> <<"access", " ", "information">>
      [] op = "list_sessions" -> <<"sessions">>
      [] op = "get_session" -> <<"session">>
      [] op = "get_session_k8s_resources" -> <<"k8s", " ", "resources">>
      [] op = "list_session_workspace" -> <<"workspace">>
      [] op = "get_workspace_file" -> <<"file">>
      [] op = "list_ootb_workflows" -> <<"workflows">>
      [] op = "get_workflow_metadata" -> <<"workflow", " ", "metadata">>
      [] op = "get_cluster_info" -> <<"cluster", " ", "info">>
      [] op = "get_health" -> <<"health", " ", "status">>

\* every listing operation unwrapping "items"
CollectionFieldItems(op) ==
    IF op \in {"list_projects", "list_sessions", "list_session_workspace",
               "list_ootb_workflows"}
    THEN "items" ELSE ""

\* the field a listing operation unwraps; "" for the operations that return
\* the body itself
CollectionField(op) ==
    CASE op = "list_projects" -> "items"
      [] op = "list_sessions" -> "items"
      [] op = "list_session_workspace" -> "files"
      [] op = "list_ootb_workflows" -> "workflows"
      [] OTHER -> ""

ListingOps == {op \in Ops : CollectionField(op) # ""}

SessionPath(project_name, session_name) ==
    <<"/", "projects", "/">> \o project_name \o
    <<"/", "agentic-sessions", "/">> \o session_name

\* the f-string each operation passes to self.client.get
RequestPath(op, project_name, session_name, path) ==
    CASE op = "list_projects" -> <<"/", "projects">>
      [] op = "get_project" -> <<"/", "projects", "/">> \o project_name
      [] op = "check_project_access" ->
            <<"/", "projects", "/">> \o project_name \o <<"/", "access">>
      [] op = "list_sessions" ->
            <<"/", "projects", "/">> \o project_name \o <<"/", "agentic-sessions">>
      [] op = "get_session" -> SessionPath(project_name, session_name)
      [] op = "get_session_k8s_resources" ->
            SessionPath(project_name, session_name) \o <<"/", "k8s-resources">>
      [] op = "list_session_workspace" ->
            SessionPath(project_name, session_name) \o <<"/", "workspace">>
      [] op = "get_workspace_file" ->
            SessionPath(project_name, session_name) \o <<"/", "workspace", "/">> \o path
      [] op = "list_ootb_workflows" -> <<"/", "workflows", "/", "ootb">>
      [] op = "get_workflow_metadata" ->
            SessionPath(project_name, session_name) \o <<"/", "workflow", "/", "metadata">>
      [] op = "get_cluster_info" -> <<"/", "cluster-info">>
      [] op = "get_health" -> <<"/", "health">>

\* str.replace(old, "") where old is one token of the text
RECURSIVE RemoveToken(_, _)
RemoveToken(text, old) ==
    IF Len(text) = 0 THEN <<>>
    ELSE IF text[1] = old THEN RemoveToken(Tail(text), old)
    ELSE <<text[1]>> \o RemoveToken(Tail(text), old)

\* the base address of the request: get_health overrides it (line 324)
RequestBase(op, c) ==
    IF op = "get_health" THEN RemoveToken(c.base_url, "/api") ELSE c.client.base_url

\* line 248 looking for a whole ".." path only
PathRejectedWhole(op, path) == op = "get_workspace_file" /\ path = <<".", ".">>

\* line 248: ".." in path
PathRejected(op, path) ==
    op = "get_workspace_file" /\ Contains(path, <<".", ".">>)

\* the health request sent outside the shared client, without its headers
RequestHealthBare(op, c, project_name, session_name, path) ==
    [method |-> "GET",
     base_url |-> RequestBase(op, c),
     path |-> RequestPath(op, project_name, session_name, path),
     Authorization |-> IF op = "get_health" THEN <<>> ELSE c.client.Authorization]

\* the access check written as a post of the project name
RequestPost(op, c, project_name, session_name, path) ==
    [method |-> IF op = "check_project_access" THEN "POST" ELSE "GET",
     base_url |-> RequestBase(op, c),
     path |-> RequestPath(op, project_name, session_name, path),
     Authorization |-> c.client.Authorization]

\* the request self.client.get(...) dispatches
Request(op, c, project_name, session_name, path) ==
    [method |-> "GET",
     base_url |-> RequestBase(op, c),
     path |-> RequestPath(op, project_name, session_name, path),
     Authorization |-> c.client.Authorization]

\* the timeout wording pasted into the ConnectError branch
ConnectMsgPasted ==
    Words(<<"Request", "timed", "out", "after", "30s.", "Backend", "may", "be",
            "overloaded.">>)

ConnectMsg ==
    Words(<<"Cannot", "reach", "backend", "API.", "Check", "cluster", "connectivity.">>)

TimeoutMsg ==
    Words(<<"Request", "timed", "out", "after", "30s.", "Backend", "may", "be",
            "overloaded.">>)

\* data.get(field, []) of a listing operation
Unwrap(op, data) ==
    IF data.t # "object"
    THEN Raise("AttributeError",
               Words(<<"object", "has", "no", "attribute", "'get'">>))
    ELSE Return(DictGet(data, CollectionField(op), JArr(<<>>)))

\* the part of an operation after `await self.client.get(...)`: out is what
\* the transport produced (a response, or an httpx exception)
ClientFinish(op, out) ==
    IF out.kind = "ConnectError" THEN Raise("Exception", ConnectMsg)
    ELSE IF out.kind = "TimeoutException" THEN Raise("Exception", TimeoutMsg)
    ELSE IF out.kind # "response" THEN Raise(out.kind, <<out.kind>>)
    ELSE LET data == _handle_response(out.status, out.body, ResourceType(op))
         IN  IF data.kind = "raise" THEN data
             ELSE IF op \in ListingOps THEN Unwrap(op, data.value)
             ELSE data

\* the ValueError of line 249
PathError ==
    Raise("ValueError",
          Words(<<"Path", "cannot", "contain", "'..'", "components">>))

\* an operation runs one `await self.client.get(...)` and ends at whatever
\* it produces: again says whether the request is issued once more
ClientResumeRetry(op, out) ==
    [again |-> out.kind # "response" \/ out.status >= 500,
     result |-> ClientFinish(op, out)]

ClientResume(op, out) == [again |-> FALSE, result |-> ClientFinish(op, out)]

----------------------------------------------------------------------------
(* server.py: format_json and the twelve tools *)

\* the members of a sequence of texts, separated by sep
RECURSIVE Join(_, _)
Join(texts, sep) ==
    IF Len(texts) = 0 THEN <<>>
    ELSE IF Len(texts) = 1 THEN texts[1]
    ELSE texts[1] \o sep \o Join(Tail(texts), sep)

\* json.dumps(data, indent=2), layout left out
RECURSIVE format_json(_)
format_json(data) ==
    CASE data.t = "null" -> <<"null">>
      [] data.t = "number" -> <<ToString(data.n)>>
      [] data.t = "string" -> <<"\"">> \o data.s \o <<"\"">>
      [] data.t = "array" ->
            <<"[">> \o Join([i \in 1..Len(data.s) |-> <<data.s[i]>>], <<",">>) \o <<"]">>
      [] data.t = "object" ->
            <<"{">> \o
            Join([i \in 1..Len(data.f) |->
                    <<"\"", data.f[i][1], "\"", ":">> \o format_json(data.f[i][2])],
                 <<",">>) \o
            <<"}">>

\* len(x) of a value a client operation returned
PyLen(v) ==
    CASE v.t = "array" -> Return(JNum(Len(v.s)))
      [] v.t = "string" -> Return(JNum(Len(v.s)))
      [] v.t = "object" -> Return(JNum(Len(v.f)))
      [] OTHER ->
            Raise("TypeError",
                  Words(<<"object", "of", "type", "'NoneType'", "has", "no", "len()">>))

\* the tools keeping the backend's field name "items" for the collection
ListWrapperItems(op) ==
    CASE op \in {"list_projects", "list_sessions", "list_session_workspace",
                 "list_ootb_workflows"} -> "items"
      [] OTHER -> ""

\* the key a listing tool returns its collection under
ListWrapper(op) ==
    CASE op = "list_projects" -> "projects"
      [] op = "list_sessions" -> "sessions"
      [] op = "list_session_workspace" -> "files"
      [] op = "list_ootb_workflows" -> "workflows"
      [] OTHER -> ""

\* the wording of the log line returned in place of the result's
ErrorPrefixLog(op) == Words(<<"Failed", "to", "call", op>>) \o <<":">>

\* the text each tool's `except Exception` branch puts before str(e)
ErrorPrefix(op) ==
    CASE op = "list_projects" -> Words(<<"Error", "listing", "projects:">>)
      [] op = "get_project" -> Words(<<"Error", "getting", "project:">>)
      [] op = "check_project_access" ->
            Words(<<"Error", "checking", "project", "access:">>)
      [] op = "list_sessions" -> Words(<<"Error", "listing", "sessions:">>)
      [] op = "get_session" -> Words(<<"Error", "getting", "session:">>)
      [] op = "get_session_k8s_resources" ->
            Words(<<"Error", "getting", "Kubernetes", "resources:">>)
      [] op = "list_session_workspace" -> Words(<<"Error", "listing", "workspace:">>)
      [] op = "get_workspace_file" ->
            Words(<<"Error", "getting", "workspace", "file:">>)
      [] op = "list_ootb_workflows" -> Words(<<"Error", "listing", "workflows:">>)
      [] op = "get_workflow_metadata" ->
            Words(<<"Error", "getting", "workflow", "metadata:">>)
      [] op = "get_cluster_info" -> Words(<<"Error", "getting", "cluster", "info:">>)
      [] op = "get_health" -> Words(<<"Error", "getting", "health", "status:">>)

InvalidPathPrefix == Words(<<"Invalid", "path:">>)

\* the exception classes of the model that derive from Exception
ExceptionClasses ==
    {"Exception", "ValueError", "JSONDecodeError", "AttributeError", "TypeError",
     "ReadError"}

\* `except Exception` narrowed to the errors the client words itself
CaughtOnlyPlain(type) == type = "Exception"

\* `except Exception as e`
Caught(type) == type \in ExceptionClasses

\* what a tool hands back: its text, whether the call failed, whether the
\* failure was logged, and fault when an exception leaves the tool
ToolText(text) == [text |-> text, failed |-> FALSE, logged |-> FALSE, fault |-> FALSE]

\* the except branches of a tool
ToolExcept(op, type, msg) ==
    IF op = "get_workspace_file" /\ IsValueError(type)
    THEN [text |-> InvalidPathPrefix \o <<" ">> \o msg,
          failed |-> TRUE, logged |-> FALSE, fault |-> FALSE]
    ELSE IF Caught(type)
    THEN [text |-> ErrorPrefix(op) \o <<" ">> \o msg,
          failed |-> TRUE, logged |-> TRUE, fault |-> FALSE]
    ELSE [text |-> <<>>, failed |-> TRUE, logged |-> FALSE, fault |-> TRUE]

\* every tool, not only the listing ones, putting what the client returned
\* under a key of its own
ToolFinishWrapped(op, r) ==
    IF r.kind = "raise" THEN ToolExcept(op, r.type, r.msg)
    ELSE IF op \in ListingOps
    THEN LET count == PyLen(r.value)
         IN  IF count.kind = "raise" THEN ToolExcept(op, count.type, count.msg)
             ELSE ToolText(format_json(
                      JObj(<<<<ListWrapper(op), r.value>>, <<"count", count.value>>>>)))
    ELSE ToolText(format_json(JObj(<<<<"result", r.value>>>>)))

\* a tool from the point its client call has ended with r
ToolFinish(op, r) ==
    IF r.kind = "raise" THEN ToolExcept(op, r.type, r.msg)
    ELSE IF op \in ListingOps
    THEN LET count == PyLen(r.value)
         IN  IF count.kind = "raise" THEN ToolExcept(op, count.type, count.msg)
             ELSE ToolText(format_json(
                      JObj(<<<<ListWrapper(op), r.value>>, <<"count", count.value>>>>)))
    ELSE ToolText(format_json(r.value))

----------------------------------------------------------------------------
(* The inputs the model draws from *)

\* project and session names: a plain one and a parent-directory one
ProjectNames == {<<"p">>, <<".", ".">>}
SessionNames == {<<"s">>, <<".", ".">>}

\* workspace paths: two without "..", one that climbs out, one where ".."
\* is not a segment of its own
Paths == {<<"a">>, <<"a", "/", "b">>, <<".", ".", "/", "a">>, <<"a", ".", ".", "b">>}

\* response bodies
BodyInvalid == JInvalid
BodyPlain == JObj(<<<<"content", JStr(<<"x">>)>>>>)
BodyAll ==
    JObj(<<<<"items", JArr(<<"e1", "e2">>)>>, <<"files", JArr(<<"e2", "e1">>)>>,
           <<"workflows", JArr(<<"e1">>)>>>>)
BodyNull ==
    JObj(<<<<"items", JNull>>, <<"files", JNull>>, <<"workflows", JNull>>>>)
BodyError == JObj(<<<<"error", JStr(<<"boom">>)>>>>)
BodyArray == JArr(<<"e1">>)

Bodies == {BodyInvalid, BodyPlain, BodyAll, BodyNull, BodyError, BodyArray}

\* one status code of each branch of _handle_response
Statuses == {200, 400, 401, 403, 404, 500}

\* _handle_response reads the body of a 2xx and of a >= 500 response only
BodyIsRead(status) == (status >= 200 /\ status < 300) \/ status >= 500

Response(status, body) == [kind |-> "response", status |-> status, body |-> body]
TransportError(kind) == [kind |-> kind, status |-> 0, body |-> JInvalid]
NoOutcome == [kind |-> "none", status |-> 0, body |-> JInvalid]

\* what `await self.client.get(...)` can produce: a response, or one of
\* httpx's exceptions (ReadError stands for those that are neither a
\* ConnectError nor a TimeoutException)
Outcomes ==
    {Response(st, b) : st \in {x \in Statuses : BodyIsRead(x)}, b \in Bodies}
    \cup {Response(st, BodyPlain) : st \in {x \in Statuses : ~BodyIsRead(x)}}
    \cup {TransportError(k) : k \in {"ConnectError", "TimeoutException", "ReadError"}}

\* the environment of the process
Environments ==
    [BOT_TOKEN : {None, <<>>, TestToken}, BACKEND_API_URL : {None, TestBaseUrl}]

----------------------------------------------------------------------------
(* server.py: main, and the invocations the serving loop dispatches *)

NoRequest == [method |-> "", base_url |-> <<>>, path |-> <<>>, Authorization |-> <<>>]

NoTool == [text |-> <<>>, failed |-> FALSE, logged |-> FALSE, fault |-> FALSE]

\* no reply is being written
NoReply ==
    [op |-> "", path |-> <<>>, requests |-> 0, out |-> NoOutcome,
     result |-> Return(JNull), tool |-> NoTool]

NoHr == [status |-> 0, body |-> JInvalid, resource_type |-> <<>>,
         done |-> FALSE, result |-> Return(JNull)]

\* an invocation that has ended: what its client call produced and what the
\* tool hands back
Ended(call, out, result) ==
    [op |-> call.op, path |-> call.path, requests |-> call.requests, out |-> out,
     result |-> result, tool |-> ToolFinish(call.op, result)]

\* the interpreter starts main with the module-level api_client unset
Init ==
    /\ env \in Environments
    /\ ctor = [base_url |-> None, token |-> None]
    /\ pc = "start"
    /\ exit_code = -1
    /\ api_client = NoClient
    /\ http_clients = 0
    /\ run_entered = FALSE
    /\ pending = EmptyBag
    /\ reply = NoReply
    /\ hr = NoHr
    /\ script = ScriptIdle

\* sys.exit(1) left out of the except branches: main falls through
MainExitZero(how) == 0

\* the exit code of the process for each way main ends: its two except
\* branches call sys.exit(1) (lines 302-307), a normal return gives 0
MainExit(how) ==
    CASE how = "ValueError" -> 1
      [] how = "Exception" -> 1
      [] how = "return" -> 0

\* main, lines 293-304: api_client = APIClient(); a ValueError ends the
\* process with sys.exit(1), otherwise mcp.run is entered
MainConstruct ==
    /\ pc = "start"
    /\ LET c == APIClientInit(ctor.base_url, ctor.token, env)
       IN  IF c.raised = "ValueError"
           THEN /\ pc' = "failed"
                /\ exit_code' = MainExit("ValueError")
                /\ UNCHANGED <<api_client, http_clients, run_entered>>
           ELSE /\ api_client' = c
                /\ http_clients' = http_clients + 1
                /\ run_entered' = TRUE
                /\ pc' = "serving"
                /\ UNCHANGED exit_code
    /\ UNCHANGED <<env, ctor, pending, reply, hr>>
    /\ UNCHANGED script

\* the two names handed to the client the other way round
ForwardSwapped(op, project_name, session_name, path) ==
    [op |-> op, project_name |-> session_name, session_name |-> project_name,
     path |-> path]

\* the client call a tool function makes: the operation of its own name,
\* its arguments in its own order
Forward(op, project_name, session_name, path) ==
    [op |-> op, project_name |-> project_name, session_name |-> session_name,
     path |-> path]

\* a tool is invoked: it runs up to the await of its request, or to its end
\* when the path gate raises.  The event loop runs one tool step at a time,
\* and the reply of the invocation that ended last is written before the
\* next tool step
Invoke ==
    /\ pc = "serving"
    /\ reply = NoReply
    /\ BagCardinality(pending) < MaxInv
    /\ \E op \in Ops :
       \E p \in (IF op \in TakesProject THEN ProjectNames ELSE {<<>>}) :
       \E s \in (IF op \in TakesSession THEN SessionNames ELSE {<<>>}) :
       \E f \in (IF op \in TakesPath THEN Paths ELSE {<<>>}) :
          LET call == [op |-> op, project_name |-> p, session_name |-> s,
                       path |-> f, requests |-> 0, req |-> NoRequest]
              fwd == Forward(op, p, s, f)
          IN  IF PathRejected(fwd.op, fwd.path)
              THEN /\ reply' = Ended(call, NoOutcome, PathError)
                   /\ UNCHANGED pending
              ELSE /\ pending' = pending (+) SetToBag(
                                    {[call EXCEPT !.requests = 1,
                                                  !.req = Request(fwd.op, api_client,
                                                                  fwd.project_name,
                                                                  fwd.session_name,
                                                                  fwd.path)]})
                   /\ UNCHANGED reply
    /\ UNCHANGED <<env, ctor, pc, exit_code, api_client, http_clients, run_entered, hr>>
    /\ UNCHANGED script

\* the shared client taken as one request at a time: a pending request
\* ends only when no other is pending
RespondCallLocked(call) ==
    /\ pc = "serving"
    /\ reply = NoReply
    /\ BagCardinality(pending) = 1
    /\ \E out \in Outcomes :
          LET r == ClientResume(call.op, out)
              rest == pending (-) SetToBag({call})
          IN  IF r.again /\ call.requests < MaxAttempts
              THEN /\ pending' = rest (+) SetToBag({[call EXCEPT !.requests = @ + 1]})
                   /\ UNCHANGED reply
              ELSE /\ reply' = Ended(call, out, r.result)
                   /\ pending' = rest
    /\ UNCHANGED <<env, ctor, pc, exit_code, api_client, http_clients, run_entered, hr>>
    /\ UNCHANGED script

\* the request of the pending invocation call ends with some outcome, and
\* the tool runs on to its return
RespondCall(call) ==
    /\ pc = "serving"
    /\ reply = NoReply
    /\ \E out \in Outcomes :
          LET r == ClientResume(call.op, out)
              rest == pending (-) SetToBag({call})
          IN  IF r.again /\ call.requests < MaxAttempts
              THEN /\ pending' = rest (+) SetToBag({[call EXCEPT !.requests = @ + 1]})
                   /\ UNCHANGED reply
              ELSE /\ reply' = Ended(call, out, r.result)
                   /\ pending' = rest
    /\ UNCHANGED <<env, ctor, pc, exit_code, api_client, http_clients, run_entered, hr>>
    /\ UNCHANGED script

\* the event loop resumes any one of the pending invocations
Respond ==
    \E call \in BagToSet(pending) : RespondCall(call)

\* the reference dropped once a result has been written
DeliverReset ==
    /\ pc = "serving"
    /\ reply # NoReply
    /\ reply' = NoReply
    /\ api_client' = NoClient
    /\ UNCHANGED <<env, ctor, pc, exit_code, http_clients, run_entered, pending, hr>>
    /\ UNCHANGED script

\* the text the tool returned is written to standard output as the one
\* response message of the invocation
Deliver ==
    /\ pc = "serving"
    /\ reply # NoReply
    /\ reply' = NoReply
    /\ UNCHANGED <<env, ctor, pc, exit_code, api_client, http_clients, run_entered,
                   pending, hr>>
    /\ UNCHANGED script

\* mcp.run returns (standard input closed): main returns without closing
\* the client, exit code 0; what is still pending or unwritten is dropped
\* with the event loop
ServeReturn ==
    /\ pc = "serving"
    /\ pc' = "returned"
    /\ exit_code' = MainExit("return")
    /\ pending' = EmptyBag
    /\ reply' = NoReply
    /\ UNCHANGED <<env, ctor, api_client, http_clients, run_entered, hr>>
    /\ UNCHANGED script

\* mcp.run raises: lines 305-307, sys.exit(1), the client not closed
ServeRaise ==
    /\ pc = "serving"
    /\ pc' = "failed"
    /\ exit_code' = MainExit("Exception")
    /\ pending' = EmptyBag
    /\ reply' = NoReply
    /\ UNCHANGED <<env, ctor, api_client, http_clients, run_entered, hr>>
    /\ UNCHANGED script

\* the process has ended
Exited == pc \in {"returned", "failed"}

Next ==
    \/ MainConstruct
    \/ Invoke
    \/ Respond
    \/ Deliver
    \/ ServeReturn
    \/ ServeRaise

Spec == Init /\ [][Next]_vars

----------------------------------------------------------------------------
(* The module imported: main may run, and until it has assigned api_client *)
(* the registered tool functions can be called with the reference unset    *)

\* `api_client.<operation>` evaluated while api_client is None
UnsetError(op) ==
    Raise("AttributeError",
          Words(<<"'NoneType'", "object", "has", "no", "attribute">>) \o <<" ", op>>)

\* a tool function called before main has assigned api_client: the
\* attribute lookup of its first line raises inside the tool's try
CallUnset ==
    /\ pc = "start"
    /\ reply = NoReply
    /\ api_client = NoClient
    /\ \E op \in Ops :
       \E p \in (IF op \in TakesProject THEN ProjectNames ELSE {<<>>}) :
       \E s \in (IF op \in TakesSession THEN SessionNames ELSE {<<>>}) :
       \E f \in (IF op \in TakesPath THEN Paths ELSE {<<>>}) :
          reply' = Ended([op |-> op, project_name |-> p, session_name |-> s,
                          path |-> f, requests |-> 0, req |-> NoRequest],
                         NoOutcome, UnsetError(op))
    /\ pc' = "called"
    /\ UNCHANGED <<env, ctor, exit_code, api_client, http_clients, run_entered,
                   pending, hr>>
    /\ UNCHANGED script

\* the tool function returns its text to its caller
ReturnUnset ==
    /\ pc = "called"
    /\ reply' = NoReply
    /\ pc' = "start"
    /\ UNCHANGED <<env, ctor, exit_code, api_client, http_clients, run_entered,
                   pending, hr>>
    /\ UNCHANGED script

NextModule ==
    \/ CallUnset
    \/ ReturnUnset
    \/ MainConstruct
    \/ Invoke
    \/ Respond
    \/ Deliver
    \/ ServeReturn
    \/ ServeRaise

SpecModule == Init /\ [][NextModule]_vars

----------------------------------------------------------------------------
(* APIClient constructed directly, with arguments (tests/test_client.py):  *)
(* construct, then close                                                   *)

ArgToken == <<"tok-arg">>
ArgBaseUrl == <<"http://", "other-backend", ":9090", "/api">>

ConstructEnvironments ==
    [BOT_TOKEN : {None, <<>>, TestToken}, BACKEND_API_URL : {None, <<>>, TestBaseUrl}]

\* base addresses cut so that every occurrence of "/api" is one token:
\* http://api.example.com:8080/api, and an address without the sub-path
ApiHostBaseUrl == <<"http:/", "/api", ".example.com", ":8080", "/api">>
BareBaseUrl == <<"http://", "gateway", ":8080">>

ConstructArgs ==
    [base_url : {None, <<>>, ArgBaseUrl, ApiHostBaseUrl, BareBaseUrl},
     token : {None, <<>>, ArgToken}]

InitConstruct ==
    /\ env \in ConstructEnvironments
    /\ ctor \in ConstructArgs
    /\ pc = "start"
    /\ exit_code = -1
    /\ api_client = NoClient
    /\ http_clients = 0
    /\ run_entered = FALSE
    /\ pending = EmptyBag
    /\ reply = NoReply
    /\ hr = NoHr
    /\ script = ScriptIdle

\* client = APIClient(base_url, token)
Construct ==
    /\ pc = "start"
    /\ LET c == APIClientInit(ctor.base_url, ctor.token, env)
       IN  /\ api_client' = c
           /\ pc' = IF c.raised = "ValueError" THEN "raised" ELSE "constructed"
           /\ http_clients' = IF c.client.created THEN http_clients + 1 ELSE http_clients
    /\ UNCHANGED <<env, ctor, exit_code, run_entered, pending, reply, hr>>
    /\ UNCHANGED script

\* await client.close()
CloseClient ==
    /\ pc = "constructed"
    /\ api_client' = close(api_client)
    /\ pc' = "closed"
    /\ UNCHANGED <<env, ctor, exit_code, http_clients, run_entered, pending, reply, hr>>
    /\ UNCHANGED script

\* await client.get_health(): the request is built and sent
HealthCall ==
    /\ pc = "constructed"
    /\ pending = EmptyBag
    /\ pending' = SetToBag({[op |-> "get_health", project_name |-> <<>>,
                             session_name |-> <<>>, path |-> <<>>, requests |-> 1,
                             req |-> Request("get_health", api_client, <<>>, <<>>, <<>>)]})
    /\ UNCHANGED <<env, ctor, pc, exit_code, api_client, http_clients, run_entered,
                   reply, hr>>
    /\ UNCHANGED script

NextConstruct == Construct \/ HealthCall \/ CloseClient

SpecConstruct == InitConstruct /\ [][NextConstruct]_vars

----------------------------------------------------------------------------
(* claude-code-runner/tests/test_langfuse_e2e.py: the end-to-end script.   *)
(* Time is counted in seconds since start_time of the wait.                *)

TIMEOUT_SECONDS == 300
POLL_INTERVAL == 5

\* the seconds a request of the script may take (timeout=10)
RequestTimes == {0, 10}

E2ESessionName == <<"agentic-session-1">>

\* what create_session can end in: the name of the response body (None
\* when the body has no "name", possibly empty), or an exception
CreateOutcomes ==
    {[kind |-> "return", name |-> n, exc |-> ""] : n \in {E2ESessionName, None, <<>>}}
    \cup {[kind |-> "raise", name |-> None, exc |-> e] :
             e \in {"HTTPError", "ConnectionError", "JSONDecodeError", "AttributeError"}}

\* what one poll of the session can observe: a phase ("Unknown" when the
\* body has no status or no phase), a body whose status is not an object,
\* or an exception of requests
RequestExceptions == {"HTTPError", "ConnectionError", "ReadTimeout"}
Phases == {"Completed", "Failed", "Running", "Unknown"}
PollOutcomes ==
    {[kind |-> "phase", phase |-> ph, exc |-> ""] : ph \in Phases}
    \cup {[kind |-> "malformed", phase |-> "", exc |-> "AttributeError"]}
    \cup {[kind |-> "raise", phase |-> "", exc |-> e] : e \in RequestExceptions}

\* what the DELETE of cleanup_session can end in
DeleteOutcomes ==
    {[kind |-> "response", status |-> st, exc |-> ""] : st \in {200, 204, 404, 500}}
    \cup {[kind |-> "raise", status |-> 0, exc |-> e] :
             e \in {"ConnectionError", "ReadTimeout"}}

\* cleanup_session with a bare `raise` in its except branch
cleanup_sessionReraise(out) ==
    IF out.kind = "response" THEN "return" ELSE "raise"

\* cleanup_session, lines 202-211: every status is printed, every
\* Exception of the request is caught and printed
cleanup_session(out) ==
    IF out.kind = "response" THEN "return"
    ELSE IF out.exc \in {"ConnectionError", "ReadTimeout", "HTTPError"} THEN "return"
    ELSE "raise"

\* time.sleep leaving the clock where it was
SleepNoTime(t) == t

\* time.sleep(POLL_INTERVAL), line 131
Sleep(t) == t + POLL_INTERVAL

InitE2E ==
    /\ env = [BOT_TOKEN |-> None, BACKEND_API_URL |-> None]
    /\ ctor = [base_url |-> None, token |-> None]
    /\ pc = "script"
    /\ exit_code = -1
    /\ api_client = NoClient
    /\ http_clients = 0
    /\ run_entered = FALSE
    /\ pending = EmptyBag
    /\ reply = NoReply
    /\ hr = NoHr
    /\ script = [ScriptIdle EXCEPT !.pc = "main"]

\* main, lines 217-225: the three LANGFUSE variables are required
MainEnv ==
    /\ script.pc = "main"
    /\ \E present \in BOOLEAN :
          script' = IF present
                    THEN [script EXCEPT !.pc = "token"]
                    ELSE [script EXCEPT !.pc = "exiting", !.exc = "EnvironmentError"]
    /\ UNCHANGED serverVars

\* main, line 237: get_service_account_token, outside the try
GetToken ==
    /\ script.pc = "token"
    /\ \E found \in BOOLEAN :
          script' = IF found
                    THEN [script EXCEPT !.pc = "create"]
                    ELSE [script EXCEPT !.pc = "exiting", !.exc = "RuntimeError"]
    /\ UNCHANGED serverVars

\* main, line 243: session_name = create_session(...)
CreateSession ==
    /\ script.pc = "create"
    /\ \E out \in CreateOutcomes :
          script' = IF out.kind = "return"
                    THEN [script EXCEPT !.pc = "wait_head", !.session_name = out.name]
                    ELSE [script EXCEPT !.pc = "finally", !.exc = out.exc]
    /\ UNCHANGED serverVars

\* wait_for_session_completion, lines 103-105 and 133: the loop test
WaitHead ==
    /\ script.pc = "wait_head"
    /\ script' = IF script.elapsed < TIMEOUT_SECONDS
                 THEN [script EXCEPT !.pc = "poll", !.check_count = @ + 1,
                                     !.last_check = script.elapsed]
                 ELSE [script EXCEPT !.pc = "finally", !.wait_result = "TimeoutError",
                                     !.exc = "TimeoutError"]
    /\ UNCHANGED serverVars

\* wait_for_session_completion, lines 109-129: one check of the session
Poll ==
    /\ script.pc = "poll"
    /\ \E d \in RequestTimes : \E out \in PollOutcomes :
          LET at == [script EXCEPT !.elapsed = @ + d]
          IN  script' =
                 IF out.kind = "raise"
                 THEN [at EXCEPT !.pc = "finally", !.wait_result = "RequestException",
                                 !.observed = out.exc, !.exc = out.exc]
                 ELSE IF out.kind = "malformed"
                 THEN [at EXCEPT !.pc = "finally", !.wait_result = out.exc,
                                 !.observed = "malformed", !.exc = out.exc]
                 ELSE IF out.phase = "Completed"
                 THEN [at EXCEPT !.pc = "verify", !.wait_result = "True",
                                 !.observed = out.phase]
                 ELSE IF out.phase = "Failed"
                 THEN [at EXCEPT !.pc = "finally", !.wait_result = "RuntimeError",
                                 !.observed = out.phase, !.exc = "RuntimeError"]
                 ELSE [at EXCEPT !.pc = "sleep", !.observed = out.phase]
    /\ UNCHANGED serverVars

\* wait_for_session_completion, line 131
PollSleep ==
    /\ script.pc = "sleep"
    /\ script' = [script EXCEPT !.pc = "wait_head", !.elapsed = Sleep(script.elapsed)]
    /\ UNCHANGED serverVars

\* main, lines 249-263: verify_langfuse_trace, then TEST PASSED
Verify ==
    /\ script.pc = "verify"
    /\ \E out \in {"", "AssertionError", "HTTPError", "ConnectionError"} :
          script' = IF out = ""
                    THEN [script EXCEPT !.pc = "finally", !.passed = TRUE]
                    ELSE [script EXCEPT !.pc = "finally", !.exc = out]
    /\ UNCHANGED serverVars

\* main, lines 265-268: the finally block
Finally ==
    /\ script.pc = "finally"
    /\ IF Truthy(script.session_name)
       THEN \E out \in DeleteOutcomes :
               script' = [script EXCEPT !.pc = "exiting",
                                        !.cleanups = @ + 1,
                                        !.deletes = @ + 1,
                                        !.cleanup_raised = (cleanup_session(out) = "raise"),
                                        !.exc = IF cleanup_session(out) = "raise"
                                                THEN out.exc ELSE @]
       ELSE script' = [script EXCEPT !.pc = "exiting"]
    /\ UNCHANGED serverVars

\* lines 271-281: sys.exit(0) after main, sys.exit(1) on an Exception
ScriptExit ==
    /\ script.pc = "exiting"
    /\ script' = [script EXCEPT !.pc = "exited",
                                !.exit_code = IF script.exc = "" THEN 0 ELSE 1]
    /\ UNCHANGED serverVars

NextE2E ==
    \/ MainEnv
    \/ GetToken
    \/ CreateSession
    \/ WaitHead
    \/ Poll
    \/ PollSleep
    \/ Verify
    \/ Finally
    \/ ScriptExit

SpecE2E == InitE2E /\ [][NextE2E]_vars

\* the script runs on: no step of it is postponed for ever
FairSpecE2E == InitE2E /\ [][NextE2E]_vars /\ WF_vars(NextE2E)

----------------------------------------------------------------------------
(* _handle_response applied to one response, over the whole range of       *)
(* status codes                                                            *)

MinStatus == 100
MaxStatus == 599

StatusCodes == MinStatus..MaxStatus

ResourceTypes == {ResourceType(op) : op \in Ops} \cup {<<"resource">>}

InitHandle ==
    /\ env = [BOT_TOKEN |-> TestToken, BACKEND_API_URL |-> TestBaseUrl]
    /\ ctor = [base_url |-> None, token |-> None]
    /\ pc = "handle"
    /\ exit_code = -1
    /\ api_client = NoClient
    /\ http_clients = 0
    /\ run_entered = FALSE
    /\ pending = EmptyBag
    /\ reply = NoReply
    /\ hr \in {[status |-> st, body |-> b, resource_type |-> rt, done |-> FALSE,
                result |-> Return(JNull)] :
               st \in StatusCodes, b \in Bodies, rt \in ResourceTypes}
    /\ script = ScriptIdle

\* data = await self._handle_response(response, resource_type)
HandleStep ==
    /\ pc = "handle"
    /\ ~hr.done
    /\ hr' = [hr EXCEPT !.done = TRUE,
                        !.result = _handle_response(hr.status, hr.body, hr.resource_type)]
    /\ UNCHANGED <<env, ctor, pc, exit_code, api_client, http_clients, run_entered,
                   pending, reply>>
    /\ UNCHANGED script

NextHandle == HandleStep

SpecHandle == InitHandle /\ [][NextHandle]_vars

----------------------------------------------------------------------------
(* Properties *)

DotDot == <<".", ".">>

GetWorkspaceFile == "get_workspace_file"

\* the segments of a path, split at "/"
RECURSIVE Segments(_, _)
Segments(text, cur) ==
    IF Len(text) = 0 THEN <<cur>>
    ELSE IF text[1] = "/" THEN <<cur>> \o Segments(Tail(text), <<>>)
    ELSE Segments(Tail(text), cur \o <<text[1]>>)

HasParentSegment(path) ==
    LET segs == Segments(path, <<>>)
    IN  \E i \in 1..Len(segs) : segs[i] = DotDot

\* C1: get_workspace_file with a path that contains ".." anywhere, whatever
\* the project and session names, raises ValueError having issued no
\* request: no pending file read carries such a path, and the one that ended
\* was given no response and counts zero requests
C1_PathGate ==
    /\ \A call \in BagToSet(pending) :
          call.op = GetWorkspaceFile => ~Contains(call.path, DotDot)
    /\ (reply.op = GetWorkspaceFile /\ Contains(reply.path, DotDot)) =>
          /\ reply.result.kind = "raise"
          /\ reply.result.type = "ValueError"
          /\ reply.requests = 0
          /\ reply.out = NoOutcome

\* C1 witness: a file read of a..b (".." inside a name) has been rejected
C1_Witness ==
    /\ reply.op = GetWorkspaceFile
    /\ reply.path = <<"a", ".", ".", "b">>
    /\ reply.result.type = "ValueError"
    /\ reply.requests = 0

\* C2: every request get_workspace_file issues, for all project names,
\* session names and paths, has a URL path without a ".." segment that
\* lies under /projects/{project}/agentic-sessions/{session}/workspace/
C2_NoTraversal ==
    \A call \in BagToSet(pending) :
       call.op = GetWorkspaceFile =>
          /\ ~HasParentSegment(call.req.path)
          /\ StartsWith(call.req.path,
                        SessionPath(call.project_name, call.session_name)
                           \o <<"/", "workspace", "/">>)

\* the error categories of the spec's taxonomy, told apart by the message
\* the client words them with
IsAuthenticationError(r) ==
    r.kind = "raise" /\ StartsWith(r.msg, Words(<<"Authentication", "failed.">>))
IsAccessDeniedError(r) ==
    r.kind = "raise" /\ StartsWith(r.msg, Words(<<"Access", "denied.">>))
IsNotFoundError(r) ==
    r.kind = "raise" /\ Contains(r.msg, Words(<<"not", "found">>))
IsBackendError(r) ==
    r.kind = "raise" /\ StartsWith(r.msg, Words(<<"Backend", "API", "error:">>))
IsRequestFailed(r) ==
    r.kind = "raise" /\ StartsWith(r.msg, Words(<<"Request", "failed", "with", "status">>))

\* a message names a resource kind, in either case of its first letter
NamesKind(msg, kind) == Contains(msg, kind) \/ Contains(msg, Capitalize(kind))

\* C3: response normalization is total over the status codes: 2xx returns
\* the parsed JSON body, 401 raises AuthenticationError, 403 AccessDeniedError
\* naming the resource kind, 404 NotFoundError naming the resource kind,
\* >= 500 BackendError, every other status RequestFailed with the code
C3_Normalization ==
    hr.done =>
       LET st == hr.status
           r == hr.result
       IN  /\ (st >= 200 /\ st < 300) => r = Return(hr.body)
           /\ st = 401 => IsAuthenticationError(r)
           /\ st = 403 => IsAccessDeniedError(r) /\ NamesKind(r.msg, hr.resource_type)
           /\ st = 404 => IsNotFoundError(r) /\ NamesKind(r.msg, hr.resource_type)
           /\ st >= 500 => IsBackendError(r)
           /\ (st < 200 \/ (st >= 300 /\ st < 500 /\ st \notin {401, 403, 404})) =>
                 IsRequestFailed(r) /\ Contains(r.msg, <<ToString(st)>>)

\* C3 with the 2xx row kept to the bodies json() can parse: what is left
\* of the table once the unparseable 2xx body is set aside
C3_ParseableOnly ==
    hr.done =>
       LET st == hr.status
           r == hr.result
       IN  /\ (st >= 200 /\ st < 300 /\ hr.body.t # "invalid") => r = Return(hr.body)
           /\ st = 401 => IsAuthenticationError(r)
           /\ st = 403 => IsAccessDeniedError(r) /\ NamesKind(r.msg, hr.resource_type)
           /\ st = 404 => IsNotFoundError(r) /\ NamesKind(r.msg, hr.resource_type)
           /\ st >= 500 => IsBackendError(r)
           /\ (st < 200 \/ (st >= 300 /\ st < 500 /\ st \notin {401, 403, 404})) =>
                 IsRequestFailed(r) /\ Contains(r.msg, <<ToString(st)>>)

\* C4: every invocation that ends, whatever its client call raised, hands
\* back one non-empty text and lets no exception out of the tool, and the
\* process is serving then: no exit code has been set
C4_AlwaysText ==
    reply # NoReply =>
       /\ ~reply.tool.fault
       /\ Len(reply.tool.text) > 0
       /\ pc = "serving"
       /\ exit_code = -1

\* C4 witness: a transport failure that is neither a connect error nor a
\* timeout has ended an invocation as a failure text
C4_Witness ==
    /\ reply.out.kind = "ReadError"
    /\ reply.tool.failed
    /\ ~reply.tool.fault
    /\ Len(reply.tool.text) > 0

ErrorMarker == <<"Error">>

\* C5 as claimed: every failed operation, the path ValidationError of
\* get_workspace_file included, yields a text that starts with "Error"
C5_ErrorMarker == reply.tool.failed => StartsWith(reply.tool.text, ErrorMarker)

\* C5 amended: a failed operation yields a text that starts with "Error",
\* except get_workspace_file failing with a ValueError (the path gate, or a
\* 2xx body that is not JSON), whose text starts with "Invalid path:"
C5_ErrorOrInvalidPath ==
    reply.tool.failed =>
       IF reply.op = GetWorkspaceFile
          /\ reply.result.type \in {"ValueError", "JSONDecodeError"}
       THEN StartsWith(reply.tool.text, Words(<<"Invalid", "path:">>))
       ELSE StartsWith(reply.tool.text, ErrorMarker)

\* C5 witness: both cases have happened to the file read: a path with ".."
\* answered "Invalid path:", or a 404 answered "Error ..."
C5_Witness ==
    /\ reply.op = GetWorkspaceFile
    /\ reply.tool.failed
    /\ reply.out.kind = "response"
    /\ reply.out.status = 404
    /\ StartsWith(reply.tool.text, ErrorMarker)

\* C6: the client is created once, and every ended run that constructed it
\* has closed it
C6_ClosedOnExit ==
    /\ http_clients <= 1
    /\ (Exited /\ api_client.client.created) => api_client.client.closed

NoCredential(e, args) ==
    /\ args.token \in {None, <<>>}
    /\ e.BOT_TOKEN \in {None, <<>>}

\* C7: constructing APIClient with no credential (token argument absent or
\* empty, BOT_TOKEN unset or empty) raises ValueError with no HTTP
\* connection object created, and that is the only way construction fails;
\* every client that exists holds a non-empty token
C7_NoUnauthenticatedClient ==
    pc \in {"raised", "constructed", "closed"} =>
       /\ NoCredential(env, ctor) <=> (pc = "raised")
       /\ pc = "raised" =>
             /\ api_client.raised = "ValueError"
             /\ ~api_client.client.created
             /\ http_clients = 0
             /\ pending = EmptyBag
       /\ api_client.client.created =>
             /\ api_client.token # <<>>
             /\ api_client.token # None
             /\ api_client.client.Authorization = <<"Bearer", " ">> \o api_client.token

\* C7 witness: BOT_TOKEN set to the empty string, no token argument, and
\* the constructor has raised
C7_Witness ==
    /\ pc = "raised"
    /\ env.BOT_TOKEN = <<>>
    /\ ctor.token = None
    /\ ~api_client.client.created

\* C8: with BOT_TOKEN unset or empty main ends with a non-zero exit code
\* without entering mcp.run, so nothing is ever served; a run whose serving
\* loop returned normally has exit code 0
C8_FatalStartup ==
    /\ (env.BOT_TOKEN \in {None, <<>>} /\ pc # "start") =>
          /\ pc = "failed"
          /\ exit_code > 0
          /\ ~run_entered
          /\ ~api_client.client.created
          /\ pending = EmptyBag
          /\ reply = NoReply
    /\ (pending # EmptyBag \/ reply # NoReply) => api_client.client.created
    /\ pc = "returned" => (exit_code = 0 /\ run_entered /\ api_client.client.created)

\* C8 witness: BOT_TOKEN unset, and main has ended with exit code 1
C8_Witness ==
    /\ env.BOT_TOKEN = None
    /\ pc = "failed"
    /\ exit_code = 1
    /\ ~run_entered

\* the collection field of each listing operation, as the claim lists them
ClaimedField(op) ==
    CASE op \in {"list_projects", "list_sessions"} -> "items"
      [] op = "list_session_workspace" -> "files"
      [] op = "list_ootb_workflows" -> "workflows"
      [] OTHER -> "-"

\* C9: a listing operation given a 2xx response whose JSON object omits
\* its collection field returns the empty sequence; given the field it
\* returns that field's value, the same elements in the same order
C9_Unwrap ==
    (/\ reply.op \in {"list_projects", "list_sessions", "list_session_workspace",
                      "list_ootb_workflows"}
     /\ reply.out.kind = "response"
     /\ reply.out.status >= 200 /\ reply.out.status < 300
     /\ reply.out.body.t = "object") =>
       LET members == reply.out.body.f
           field == ClaimedField(reply.op)
       IN  IF \E i \in 1..Len(members) : members[i][1] = field
           THEN \E i \in 1..Len(members) :
                   /\ members[i][1] = field
                   /\ reply.result = Return(members[i][2])
           ELSE reply.result = Return(JArr(<<>>))

\* C9 witness: the workspace listing has returned the two files of a body
\* that holds all three fields, in the body's order
C9_Witness ==
    /\ reply.op = "list_session_workspace"
    /\ reply.out.kind = "response"
    /\ reply.out.status = 200
    /\ reply.out.body = BodyAll
    /\ reply.result.kind = "return"
    /\ reply.result.value.s = <<"e2", "e1">>

\* C10: an invocation issues one request, zero when the path gate rejects
\* it, whatever the outcome: a pending invocation counts one request, an
\* ended one counts one unless it is the rejected file read, and its result
\* is the one of its own outcome
C10_OneRequest ==
    /\ \A call \in BagToSet(pending) : call.requests = 1
    /\ reply # NoReply =>
          /\ reply.requests =
                (IF reply.op = GetWorkspaceFile /\ Contains(reply.path, DotDot)
                 THEN 0 ELSE 1)
          /\ (reply.requests = 0) <=> (reply.out = NoOutcome)
          /\ reply.out.kind = "ConnectError" =>
                Contains(reply.result.msg, Words(<<"Cannot", "reach">>))
          /\ reply.out.kind = "TimeoutException" =>
                Contains(reply.result.msg, Words(<<"timed", "out">>))
          /\ (reply.out.kind = "response" /\ reply.out.status = 401) =>
                IsAuthenticationError(reply.result)
          /\ (reply.out.kind = "response" /\ reply.out.status = 500) =>
                IsBackendError(reply.result)
          /\ (/\ reply.out.kind = "response"
              /\ reply.out.status = 200
              /\ reply.out.body.t = "object"
              /\ ClaimedField(reply.op) = "-") =>
                reply.result = Return(reply.out.body)

\* C10 witness: an invocation answered 500 has ended having issued its one
\* request
C10_Witness ==
    /\ reply.out.kind = "response"
    /\ reply.out.status = 500
    /\ reply.requests = 1
    /\ reply.result.kind = "raise"

CannotReach == Words(<<"Cannot", "reach">>)
TimedOut == Words(<<"timed", "out">>)

\* C11: in every client operation a connect error raises the connectivity
\* error, whose message contains "Cannot reach" and not "timed out", and a
\* timeout raises the timeout error, whose message contains "timed out" and
\* not "Cannot reach"
C11_ConnectVsTimeout ==
    /\ reply.out.kind = "ConnectError" =>
          /\ reply.result.kind = "raise"
          /\ reply.result.type = "Exception"
          /\ Contains(reply.result.msg, CannotReach)
          /\ ~Contains(reply.result.msg, TimedOut)
    /\ reply.out.kind = "TimeoutException" =>
          /\ reply.result.kind = "raise"
          /\ reply.result.type = "Exception"
          /\ Contains(reply.result.msg, TimedOut)
          /\ ~Contains(reply.result.msg, CannotReach)

\* C11 witness: the cluster info read has ended on a connect error with
\* the connectivity message
C11_Witness ==
    /\ reply.op = "get_cluster_info"
    /\ reply.out.kind = "ConnectError"
    /\ Contains(reply.result.msg, CannotReach)

\* C12: under any interleaving of pending invocations on the shared client
\* each invocation is independent: its request and its result are functions
\* of its own arguments and of the outcome of its own request, every pending
\* invocation can be resumed whatever else is pending, and the shared client
\* (base address, credential, module-level reference) stays what
\* construction made it
C12_Independent ==
    pc = "serving" =>
       /\ api_client = APIClientInit(ctor.base_url, ctor.token, env)
       /\ \A call \in BagToSet(pending) :
             /\ call.req = Request(call.op, api_client, call.project_name,
                                   call.session_name, call.path)
             /\ reply = NoReply => ENABLED RespondCall(call)
       /\ reply # NoReply =>
             /\ reply.result = IF PathRejected(reply.op, reply.path)
                               THEN PathError
                               ELSE ClientFinish(reply.op, reply.out)
             /\ reply.tool = ToolFinish(reply.op, reply.result)

\* C12 witness: one invocation has ended on the response to its own request
\* while another one is still pending
C12_Witness ==
    /\ pc = "serving"
    /\ reply # NoReply
    /\ reply.out.kind = "response"
    /\ BagCardinality(pending) >= 1

\* C13: every request of every client operation, the health request with
\* its overridden base address included, carries the authorization header
\* "Bearer <token>" with the token bound at construction, and the token
\* and the base address stored on the client are those construction bound
C13_BearerOnEveryRequest ==
    pc = "serving" =>
       /\ api_client.token = Or(ctor.token, GetEnv(env, "BOT_TOKEN", <<>>))
       /\ api_client.base_url =
             Or(ctor.base_url, GetEnv(env, "BACKEND_API_URL", DefaultBaseUrl))
       /\ \A call \in BagToSet(pending) :
             call.req.Authorization = <<"Bearer", " ">> \o api_client.token

\* C13 witness: a health request is pending and carries the bearer token
C13_Witness ==
    \E call \in BagToSet(pending) :
       /\ call.op = "get_health"
       /\ call.req.Authorization = <<"Bearer", " ">> \o TestToken

\* C14: every request any of the twelve operations issues uses GET
C14_ReadOnly ==
    \A call \in BagToSet(pending) : call.req.method = "GET"

\* C14 witness: each of the twelve operations can have a GET request
\* pending; here the access check and the file read at the same time
C14_Witness ==
    /\ \E call \in BagToSet(pending) :
          call.op = "check_project_access" /\ call.req.method = "GET"
    /\ \E call \in BagToSet(pending) :
          call.op = "get_workspace_file" /\ call.req.method = "GET"

\* the path templates as the specification lists them
Under(project) == <<"/", "projects", "/">> \o project
UnderSession(project, session) ==
    Under(project) \o <<"/", "agentic-sessions", "/">> \o session

ClaimedPath(op, project, session, path) ==
    CASE op = "list_projects" -> <<"/", "projects">>
      [] op = "get_project" -> Under(project)
      [] op = "check_project_access" -> Under(project) \o <<"/", "access">>
      [] op = "list_sessions" -> Under(project) \o <<"/", "agentic-sessions">>
      [] op = "get_session" -> UnderSession(project, session)
      [] op = "get_session_k8s_resources" ->
            UnderSession(project, session) \o <<"/", "k8s-resources">>
      [] op = "list_session_workspace" ->
            UnderSession(project, session) \o <<"/", "workspace">>
      [] op = "get_workspace_file" ->
            UnderSession(project, session) \o <<"/", "workspace", "/">> \o path
      [] op = "list_ootb_workflows" -> <<"/", "workflows", "/", "ootb">>
      [] op = "get_workflow_metadata" ->
            UnderSession(project, session) \o <<"/", "workflow", "/", "metadata">>
      [] op = "get_cluster_info" -> <<"/", "cluster-info">>
      [] op = "get_health" -> <<"/", "health">>

\* C15: the request of each tool invocation has the path its template
\* gives for the arguments the tool was called with, as supplied and in
\* the tool's own order
C15_PathTemplates ==
    \A call \in BagToSet(pending) :
       call.req.path =
          ClaimedPath(call.op, call.project_name, call.session_name, call.path)

\* C15 witness: a file read with distinct project, session and path is
\* pending on the path built from the three
C15_Witness ==
    \E call \in BagToSet(pending) :
       /\ call.op = "get_workspace_file"
       /\ call.project_name = <<"p">>
       /\ call.session_name = <<"s">>
       /\ call.path = <<"a", "/", "b">>
       /\ call.req.path = <<"/", "projects", "/", "p", "/", "agentic-sessions", "/",
                            "s", "/", "workspace", "/", "a", "/", "b">>

\* scheme, host and port of an address: its text up to the port
PortTokens == {":8080", ":9090"}
Origin(text) ==
    IF \E i \in 1..Len(text) : text[i] \in PortTokens
    THEN SubSeq(text, 1, CHOOSE i \in 1..Len(text) : text[i] \in PortTokens)
    ELSE text

\* C16: the health request goes to the base address with only its API
\* sub-path removed: scheme, host and port are those of the base address,
\* and an address without the sub-path is used unchanged
C16_HealthBase ==
    \A call \in BagToSet(pending) :
       call.op = "get_health" =>
          /\ Origin(call.req.base_url) = Origin(api_client.base_url)
          /\ ~Contains(api_client.base_url, <<"/api">>) =>
                call.req.base_url = api_client.base_url

\* the parts of C16 that hold: an address without the sub-path is used
\* unchanged, and one whose only "/api" is the sub-path loses just that
C16_HealthBaseSinglePrefix ==
    \A call \in BagToSet(pending) :
       (call.op = "get_health" /\ api_client.base_url # ApiHostBaseUrl) =>
          /\ Origin(call.req.base_url) = Origin(api_client.base_url)
          /\ call.req.base_url = Origin(api_client.base_url)

NotFoundWords == Words(<<"not", "found">>)

\* C17 as stated: a 404 answer to get_project raises an error whose message
\* contains the resource kind "project" and the words "not found", and for
\* every operation the 403 and the 404 message contain the resource kind
\* the operation passed
C17_KindVerbatim ==
    (reply.out.kind = "response" /\ reply.out.status \in {403, 404}) =>
       /\ reply.result.kind = "raise"
       /\ Contains(reply.result.msg, ResourceType(reply.op))
       /\ reply.out.status = 404 => Contains(reply.result.msg, NotFoundWords)

\* C17 amended: the 403 message contains the resource kind as passed; the
\* 404 message contains it with its first letter in upper case, followed
\* by "not found", so that a 404 answer to get_project gives
\* "Project not found"
C17_KindCapitalized ==
    (reply.out.kind = "response" /\ reply.out.status \in {403, 404}) =>
       /\ reply.result.kind = "raise"
       /\ reply.out.status = 403 =>
             Contains(reply.result.msg, ResourceType(reply.op))
       /\ reply.out.status = 404 =>
             /\ Contains(reply.result.msg,
                         Capitalize(ResourceType(reply.op)) \o <<" ">> \o NotFoundWords)
             /\ ~Contains(reply.result.msg, <<ResourceType(reply.op)[1]>>)
             /\ reply.op = "get_project" =>
                   reply.result.msg = <<"Project", " ", "not", " ", "found">>

\* C17 witness: get_project has ended on a 404 answer with
\* "Project not found"
C17_Witness ==
    /\ reply.op = "get_project"
    /\ reply.out.kind = "response"
    /\ reply.out.status = 404
    /\ reply.result.msg = <<"Project", " ", "not", " ", "found">>

BackendPrefix == Words(<<"Backend", "API", "error:">>) \o <<" ">>

\* C18: for a status >= 500 the error raised is a BackendError whose
\* message gives the value of the body's "error" member when the body is a
\* JSON object that has one, and the fixed "Unknown backend error"
\* otherwise (body not JSON, or JSON without that member); never an error
\* of another category
C18_BackendMessage ==
    (hr.done /\ hr.status >= 500) =>
       /\ hr.result.kind = "raise"
       /\ hr.result.type = "Exception"
       /\ hr.result.msg =
             BackendPrefix \o
             (IF hr.body.t = "object" /\ \E i \in 1..Len(hr.body.f) : hr.body.f[i][1] = "error"
              THEN (CHOOSE m \in {hr.body.f[i] : i \in 1..Len(hr.body.f)} :
                       m[1] = "error")[2].s
              ELSE <<"Unknown", " ", "backend", " ", "error">>)

\* C18 witness: a 503 answer whose body is {"error": "boom"} has been
\* turned into "Backend API error: boom"
C18_Witness ==
    /\ hr.done
    /\ hr.status = 503
    /\ hr.body = BodyError
    /\ hr.result.msg = <<"Backend", " ", "API", " ", "error:", " ", "boom">>

\* C18 second witness state: a 500 answer that is not JSON gives the fixed
\* message
C18_UnknownReached ==
    /\ hr.done
    /\ hr.status = 500
    /\ hr.body = BodyInvalid
    /\ hr.result.msg = BackendPrefix \o <<"Unknown", " ", "backend", " ", "error">>

\* C19: every failure a tool catches, in every operation and of every
\* error category, the path ValidationError included, has been logged
\* when the text is returned
C19_FailuresLogged ==
    (reply.tool.failed /\ ~reply.tool.fault) => reply.tool.logged

\* what does hold of logging: the failures returned without a log record
\* are exactly the ValueErrors of get_workspace_file
C19_LoggedExceptValueError ==
    (reply.tool.failed /\ ~reply.tool.fault) =>
       (reply.tool.logged <=>
           ~(reply.op = "get_workspace_file" /\ reply.result.kind = "raise"
             /\ reply.result.type \in {"ValueError", "JSONDecodeError"}))

\* a value is supplied: given and not empty
Supplied(x) == x # None /\ x # <<>>

\* C20: construction binds the supplied values: token and base_url are
\* the argument when a non-empty one is given, else the value of BOT_TOKEN
\* / BACKEND_API_URL, and with no base address from either source the
\* in-cluster default address
C20_Binds ==
    pc \in {"constructed", "closed"} =>
       /\ Supplied(ctor.token) => api_client.token = ctor.token
       /\ (~Supplied(ctor.token) /\ Supplied(env.BOT_TOKEN)) =>
             api_client.token = env.BOT_TOKEN
       /\ Supplied(ctor.base_url) => api_client.base_url = ctor.base_url
       /\ (~Supplied(ctor.base_url) /\ Supplied(env.BACKEND_API_URL)) =>
             api_client.base_url = env.BACKEND_API_URL
       /\ (~Supplied(ctor.base_url) /\ ~Supplied(env.BACKEND_API_URL)) =>
             api_client.base_url = DefaultBaseUrl

\* what does hold of the base address: the default is used when
\* BACKEND_API_URL is unset, and a BACKEND_API_URL set to the empty string
\* is taken as the base address
C20_DefaultOnlyWhenUnset ==
    (pc \in {"constructed", "closed"} /\ ~Supplied(ctor.base_url)) =>
       /\ env.BACKEND_API_URL = None => api_client.base_url = DefaultBaseUrl
       /\ env.BACKEND_API_URL = <<>> => api_client.base_url = <<>>
       /\ Supplied(env.BACKEND_API_URL) => api_client.base_url = env.BACKEND_API_URL

NonListingOps ==
    {"get_project", "check_project_access", "get_session", "get_session_k8s_resources",
     "get_workspace_file", "get_workflow_metadata", "get_cluster_info", "get_health"}

\* a 2xx response whose body is JSON
ParsedOk(out) ==
    /\ out.kind = "response"
    /\ out.status >= 200 /\ out.status < 300
    /\ out.body.t # "invalid"

\* C21: on a 2xx response every non-listing operation returns the parsed
\* JSON body unmodified, and the tool's success result is the serialization
\* of exactly that value, nothing added and nothing removed
C21_PassThrough ==
    (reply.op \in NonListingOps /\ ParsedOk(reply.out)) =>
       /\ reply.result = Return(reply.out.body)
       /\ ~reply.tool.failed
       /\ reply.tool.text = format_json(reply.out.body)
       /\ reply.out.body = BodyPlain =>
             reply.tool.text = <<"{", "\"", "content", "\"", ":", "\"", "x", "\"", "}">>

\* C21 witness: get_project has returned the body {"content": "x"} of a
\* 200 response and the tool its serialization
C21_Witness ==
    /\ reply.op = "get_project"
    /\ reply.out.kind = "response"
    /\ reply.out.status = 200
    /\ reply.result = Return(BodyPlain)
    /\ reply.tool.text = <<"{", "\"", "content", "\"", ":", "\"", "x", "\"", "}">>

\* the key each listing tool returns its collection under, as the
\* specification lists them
ClaimedWrapper(op) ==
    CASE op = "list_projects" -> "projects"
      [] op = "list_sessions" -> "sessions"
      [] op = "list_session_workspace" -> "files"
      [] op = "list_ootb_workflows" -> "workflows"
      [] OTHER -> "-"

C22_OmittedReached ==
    /\ reply.op = "list_projects"
    /\ reply.out.body = BodyPlain
    /\ reply.tool.text = <<"{", "\"", "projects", "\"", ":", "[", "]", ",",
                           "\"", "count", "\"", ":", "0", "}">>

InvalidPathMarker == <<"Invalid", " ", "path:">>

\* C23: the get_workspace_file tool returns a text starting with
\* "Invalid path:" if and only if the path it was given contains "..";
\* no other failure of the file read, a 2xx body that is not JSON in
\* particular, is reported as an invalid path
C23_InvalidPathOnlyForDotDot ==
    (reply.op = GetWorkspaceFile) =>
       (StartsWith(reply.tool.text, InvalidPathMarker) <=> Contains(reply.path, DotDot))

\* what does hold: a path with ".." always gives "Invalid path:", and the
\* only other file read reported so is the 2xx response whose body is not
\* JSON
C23_InvalidPathCases ==
    (reply.op = GetWorkspaceFile) =>
       /\ Contains(reply.path, DotDot) => StartsWith(reply.tool.text, InvalidPathMarker)
       /\ (StartsWith(reply.tool.text, InvalidPathMarker) /\ ~Contains(reply.path, DotDot)) =>
             /\ reply.out.kind = "response"
             /\ reply.out.status >= 200 /\ reply.out.status < 300
             /\ reply.out.body.t = "invalid"

IsConnectivityError(r) == r.kind = "raise" /\ Contains(r.msg, CannotReach)
IsTimeoutError(r) == r.kind = "raise" /\ Contains(r.msg, TimedOut)
IsValidationError(r) ==
    r.kind = "raise" /\ r.type = "ValueError" /\ Contains(r.msg, Words(<<"Path", "cannot", "contain">>))

\* an error of one of the named categories of the taxonomy
Classified(r) ==
    \/ IsConnectivityError(r)
    \/ IsTimeoutError(r)
    \/ IsAuthenticationError(r)
    \/ IsAccessDeniedError(r)
    \/ IsNotFoundError(r)
    \/ IsBackendError(r)
    \/ IsRequestFailed(r)
    \/ IsValidationError(r)

\* C24: every error a client operation raises belongs to one of the
\* named categories (Connectivity, Timeout, Authentication, AccessDenied,
\* NotFound, Backend, RequestFailed, Validation), whatever the transport
\* produced
C24_AllClassified ==
    reply.result.kind = "raise" => Classified(reply.result)

\* what does hold: the errors outside the taxonomy are the decoder's on a
\* 2xx body that is not JSON, the AttributeError of a listing operation
\* on a 2xx body that is not an object, and the transport exceptions that
\* are neither a connect error nor a timeout
C24_Unclassified ==
    (reply.result.kind = "raise" /\ ~Classified(reply.result)) =>
       \/ /\ reply.result.type = "JSONDecodeError"
          /\ reply.out.kind = "response"
          /\ reply.out.status >= 200 /\ reply.out.status < 300
          /\ reply.out.body.t = "invalid"
       \/ /\ reply.result.type = "AttributeError"
          /\ reply.op \in ListingOps
          /\ reply.out.kind = "response"
          /\ reply.out.status >= 200 /\ reply.out.status < 300
          /\ reply.out.body.t \notin {"object", "invalid"}
       \/ /\ reply.result.type = "ReadError"
          /\ reply.out.kind = "ReadError"

\* C25: for every 2xx response body a listing operation of the client
\* either returns an ordered sequence or raises: it never returns a value
\* that is not a sequence
C25_ListingReturnsSequence ==
    (/\ reply.op \in ListingOps
     /\ reply.out.kind = "response"
     /\ reply.out.status >= 200 /\ reply.out.status < 300) =>
       \/ reply.result.kind = "raise"
       \/ reply.result.value.t = "array"

\* what does hold of the tools: a listing tool that succeeds carries a
\* sequence and its length, because len() of the null the client returned
\* raises and the tool answers with an error text
C25_SuccessCarriesSequence ==
    (reply.op \in ListingOps /\ reply # NoReply /\ ~reply.tool.failed) =>
       /\ reply.result.kind = "return"
       /\ reply.result.value.t = "array"

\* what holds in every state of C26: while main serves, the reference is
\* an initialized client and every request was built from it; a tool
\* called while the reference is unset has returned an error text
C26_StateInv ==
    /\ pc = "serving" =>
          /\ api_client # NoClient
          /\ api_client.client.created
          /\ api_client.token # <<>>
          /\ http_clients = 1
          /\ \A call \in BagToSet(pending) :
                call.req.Authorization = api_client.client.Authorization
          /\ reply # NoReply => reply.result # UnsetError(reply.op)
    /\ pc \in {"start", "called"} => api_client = NoClient /\ pending = EmptyBag
    /\ pc = "called" =>
          /\ reply.tool.failed
          /\ ~reply.tool.fault
          /\ StartsWith(reply.tool.text, <<"Error">>)

\* the only step that changes the reference is main's assignment, made
\* from the unset reference before anything is served
C26_AssignStep ==
    api_client' # api_client =>
       /\ api_client = NoClient
       /\ pc = "start"
       /\ pc' = "serving"
       /\ pending = EmptyBag
       /\ ~run_entered

\* C26: the module-level client reference is assigned once, in main,
\* before the serving loop starts, and never reassigned or reset; every
\* invocation the serving loop dispatches observes an initialized client,
\* and a tool invoked while the reference is unset returns an error text
\* instead of raising
C26_AssignedOnce == [](C26_StateInv) /\ [][C26_AssignStep]_vars

\* C26 witness: get_workspace_file called with the reference unset has
\* returned an error text
C26_Witness ==
    /\ pc = "called"
    /\ api_client = NoClient
    /\ reply.op = GetWorkspaceFile
    /\ reply.tool.failed
    /\ StartsWith(reply.tool.text, Words(<<"Error", "getting", "workspace", "file:">>))

\* C26 second witness state: an invocation is pending in the serving loop
\* on the client main assigned
C26_ServingReached ==
    /\ pc = "serving"
    /\ api_client.client.created
    /\ BagCardinality(pending) = 2

\* C27: in the end-to-end script, once create_session has returned a
\* session name the DELETE of cleanup_session is attempted exactly once on
\* every exit path of main and never before, cleanup never raises whatever
\* the DELETE ends in, no DELETE is issued when no session name came back,
\* and the exit code is 0 when every step succeeded and 1 otherwise
C27_CleanupAndExit ==
    pc = "script" =>
       /\ ~script.cleanup_raised
       /\ script.pc \notin {"exiting", "exited"} =>
             script.deletes = 0 /\ script.cleanups = 0
       /\ script.pc \in {"exiting", "exited"} =>
             IF Supplied(script.session_name)
             THEN script.deletes = 1 /\ script.cleanups = 1
             ELSE script.deletes = 0 /\ script.cleanups = 0
       /\ script.pc = "exited" =>
             /\ script.exit_code \in {0, 1}
             /\ script.exit_code = 0 <=>
                   (script.passed /\ script.wait_result = "True" /\ script.exc = "")

\* C27 witness: the polling timed out, the session was deleted once and
\* the process has exited with code 1
C27_Witness ==
    /\ script.pc = "exited"
    /\ script.session_name = E2ESessionName
    /\ script.wait_result = "TimeoutError"
    /\ script.deletes = 1
    /\ script.exit_code = 1

\* C27 second witness state: the test passed, the session was deleted
\* once and the exit code is 0
C27_PassedReached ==
    /\ script.pc = "exited"
    /\ script.passed
    /\ script.deletes = 1
    /\ script.exit_code = 0

WaitRunning == script.pc \in {"wait_head", "poll", "sleep"}
WaitEnded == script.wait_result # ""

\* C28 as stated: wait_for_session_completion ends in exactly one of
\* three outcomes: True after observing phase Completed, the error raised
\* on the first observation of phase Failed or on the first request error,
\* or TimeoutError when neither was observed before the timeout elapsed
C28_ThreeOutcomes ==
    WaitEnded =>
       \/ script.wait_result = "True" /\ script.observed = "Completed"
       \/ script.wait_result = "RuntimeError" /\ script.observed = "Failed"
       \/ script.wait_result = "RequestException" /\ script.observed \in RequestExceptions
       \/ /\ script.wait_result = "TimeoutError"
          /\ script.observed \in {"Running", "Unknown"}
          /\ script.elapsed >= TIMEOUT_SECONDS

\* the outcomes of the wait, the one of a body whose status is not an
\* object included, each on its own observation and with no check after
\* it; consecutive checks start at least the poll interval apart, which
\* bounds their number
C28_Outcomes ==
    /\ WaitEnded =>
          /\ ~WaitRunning
          /\ \/ script.wait_result = "True" /\ script.observed = "Completed"
             \/ script.wait_result = "RuntimeError" /\ script.observed = "Failed"
             \/ script.wait_result = "RequestException"
                   /\ script.observed \in RequestExceptions
             \/ script.wait_result = "AttributeError" /\ script.observed = "malformed"
             \/ /\ script.wait_result = "TimeoutError"
                /\ script.observed \in {"Running", "Unknown"}
                /\ script.elapsed >= TIMEOUT_SECONDS
    /\ WaitRunning =>
          /\ ~WaitEnded
          /\ script.observed \in {"", "Running", "Unknown"}
          /\ script.check_count <= TIMEOUT_SECONDS \div POLL_INTERVAL
    /\ (script.pc = "wait_head" /\ script.check_count >= 1) =>
          script.elapsed >= script.last_check + POLL_INTERVAL
    /\ script.pc = "poll" => script.elapsed < TIMEOUT_SECONDS

\* C28 amended: wait_for_session_completion always terminates, with one
\* of the outcomes of C28_Outcomes: True after Completed, an error on the
\* first Failed, request error or malformed body, or TimeoutError; while
\* the phase is anything else it keeps polling, the poll interval apart
C28_WaitTerminates ==
    [](C28_Outcomes) /\ ((script.pc = "wait_head") ~> WaitEnded)

\* C28 witness: after several checks that saw the session running, the
\* timeout elapsed and the wait raised TimeoutError
C28_Witness ==
    /\ script.wait_result = "TimeoutError"
    /\ script.observed = "Running"
    /\ script.check_count = TIMEOUT_SECONDS \div POLL_INTERVAL
    /\ script.elapsed = TIMEOUT_SECONDS

\* C28 second witness state: the wait returned True on the third check
C28_CompletedReached ==
    /\ script.wait_result = "True"
    /\ script.observed = "Completed"
    /\ script.check_count = 3

====
